---- MODULE Spec2Model ----
(***************************************************************************)
(* Model of src/arithmetic/mod.rs: the operator semantics                  *)
(* (BinaryOperator::result, TernaryOperator::result), the Operation        *)
(* constructors and accessor, and the row dispatcher to_rows.              *)
(*                                                                         *)
(* A u32 is kept at its full width of 32 bits.  Integers are evaluated as   *)
(* signed 32-bit numbers, so a u32 is held as two 16-bit halves            *)
(* [hi, lo] (value hi * 2^16 + lo) and the machine operations are computed *)
(* on the halves.  The claims are stated against mathematical naturals,    *)
(* held as eight base-256 digits (least significant first), so that the    *)
(* sums and products the claims speak of are exact, never wrapped.         *)
(***************************************************************************)
EXTENDS Integers, Sequences, FiniteSets, TLC

VARIABLES
    overflow_checks, \* the build: TRUE when `+`, `-`, `*` on u32 panic on overflow
    pc,              \* "idle", "constructed", "panicked", "read", "converted"
    call,            \* the constructor call made: its operator and operands
    op,              \* the Operation built, or NoOperation
    ret,             \* the value Operation::result() returned, or NoValue
    rows             \* what to_rows returned and the gadget calls it made, or NoRows

vars == <<overflow_checks, pc, call, op, ret, rows>>

-----------------------------------------------------------------------------
(* Bounds of the input sets. *)

MaxSmall == 33
MaxTop == 1
MaxTernarySmall == 3

-----------------------------------------------------------------------------
(* u32 and its machine operations, on 16-bit halves. *)

U32_BITS == 32

Half == 2^16

U(h, l) == [hi |-> h, lo |-> l]

Zero32 == U(0, 0)
One32 == U(0, 1)
Max32 == U(Half - 1, Half - 1)

FromSmall(n) == U(n \div Half, n % Half)

\* 1 << k, for k in 0..31
Pow2U(k) == IF k < 16 THEN U(0, 2^k) ELSE U(2^(k - 16), 0)

is_zero(a) == a.hi = 0 /\ a.lo = 0

\* a < b; also used on intermediate values whose hi half exceeds 16 bits
Lt32(a, b) == a.hi < b.hi \/ (a.hi = b.hi /\ a.lo < b.lo)

\* u32::overflowing_add: the wrapped sum and the overflow flag
overflowing_add(a, b) ==
    LET l == a.lo + b.lo
        h == a.hi + b.hi + (l \div Half)
    IN  <<U(h % Half, l % Half), h >= Half>>

\* u32::overflowing_sub: the wrapped difference and the borrow flag
overflowing_sub(a, b) ==
    LET l == a.lo - b.lo
        borrow == IF l < 0 THEN 1 ELSE 0
        h == a.hi - b.hi - borrow
    IN  <<U((h + Half) % Half, (l + Half) % Half), h < 0>>

\* a << n for n < 32: the bits shifted out of the top are lost
ShlN(a, n) ==
    IF n < 16
    THEN U((a.hi % 2^(16 - n)) * 2^n + (a.lo \div 2^(16 - n)),
           (a.lo % 2^(16 - n)) * 2^n)
    ELSE U((a.lo % 2^(32 - n)) * 2^(n - 16), 0)

\* a >> n for n < 32: logical shift, zeros enter at the top
ShrN(a, n) ==
    IF n < 16
    THEN U(a.hi \div 2^n, (a.lo \div 2^n) + (a.hi % 2^n) * 2^(16 - n))
    ELSE U(0, a.hi \div 2^(n - 16))

\* the low 16 bits of x * y, for 16-bit x and y
Mul16(x, y) == (x * (y % 2^8) + ((x * (y \div 2^8)) % 2^8) * 2^8) % Half

\* u32::overflowing_mul(..).0: the low 32 bits of a * b, from the partial
\* products of the halves
WrappingMul(a, b) ==
    LET p0 == a.lo * (b.lo % 2^8)
        p1 == a.lo * (b.lo \div 2^8)
        low == p0 + (p1 % 2^8) * 2^8
        carry == (low \div Half) + (p1 \div 2^8)
    IN  U((carry + Mul16(a.hi, b.lo) + Mul16(a.lo, b.hi)) % Half, low % Half)

\* a value below 2^31 as a number
ToInt(a) == a.hi * Half + a.lo

\* a << 1 without wrapping, for a below 2^31
Dbl(a) == U(2 * a.hi + (2 * a.lo) \div Half, (2 * a.lo) % Half)
Inc(a) == IF a.lo = Half - 1 THEN U(a.hi + 1, 0) ELSE U(a.hi, a.lo + 1)

\* the quotient and remainder of a by b, b # 0.  A divisor of 2^31 or more
\* goes into a at most once; otherwise a >> 1 is divided first and the last
\* bit of a brought down, as in long division.
DivRem(a, b) ==
    IF b.hi >= 2^15
    THEN IF Lt32(a, b) THEN [q |-> Zero32, r |-> a]
         ELSE [q |-> One32, r |-> overflowing_sub(a, b)[1]]
    ELSE LET d == ToInt(b)
             x == ToInt(ShrN(a, 1))
             bit == a.lo % 2
             s == x % d
             q2 == Dbl(FromSmall(x \div d))
         IN  IF s >= d - s - bit
             THEN [q |-> Inc(q2), r |-> FromSmall(s - (d - s - bit))]
             ELSE [q |-> q2, r |-> FromSmall(2 * s + bit)]

Div32(a, b) == DivRem(a, b).q
Rem32(a, b) == DivRem(a, b).r

\* whether a * b leaves the 32-bit range
MulOverflows(a, b) == ~is_zero(a) /\ Lt32(Div32(Max32, a), b)

-----------------------------------------------------------------------------
(* Operator semantics. *)

BinaryOperator == {"Add", "Mul", "Sub", "Div", "Mod", "Lt", "Gt", "Shl", "Shr"}

TernaryOperator == {"AddMod", "MulMod", "SubMod"}

\* the shift amount as a number when input0 < 32
ShiftAmount(input0) == input0.lo

ShiftInRange(input0) == input0.hi = 0 /\ input0.lo < U32_BITS

\* mutant: the sum saturates at 2^32 - 1 instead of wrapping
AddResult_Saturating(input0, input1) ==
    IF overflowing_add(input0, input1)[2] THEN Max32
    ELSE overflowing_add(input0, input1)[1]

AddResult(input0, input1) == overflowing_add(input0, input1)[1]

MulResult(input0, input1) == WrappingMul(input0, input1)

SubResult(input0, input1) == overflowing_sub(input0, input1)[1]

\* mutant: the shift amount is taken modulo 32 instead of tested against 32
ShlResult_MaskedAmount(input0, input1) == ShlN(input1, input0.lo % U32_BITS)

ShlResult(input0, input1) ==
    IF ShiftInRange(input0) THEN ShlN(input1, ShiftAmount(input0)) ELSE Zero32

ShrResult(input0, input1) ==
    IF ShiftInRange(input0) THEN ShrN(input1, ShiftAmount(input0)) ELSE Zero32

\* mutant: a zero divisor gives all ones instead of zero
DivResult_AllOnesOnZero(input0, input1) ==
    IF is_zero(input1) THEN Max32 ELSE Div32(input0, input1)

DivResult(input0, input1) ==
    IF is_zero(input1) THEN Zero32 ELSE Div32(input0, input1)

ModResult(input0, input1) ==
    IF is_zero(input1) THEN Zero32 ELSE Rem32(input0, input1)

\* mutant: the comparison is not strict
LtResult_OrEqual(input0, input1) ==
    IF Lt32(input1, input0) THEN Zero32 ELSE One32

LtResult(input0, input1) == IF Lt32(input0, input1) THEN One32 ELSE Zero32

GtResult(input0, input1) == IF Lt32(input1, input0) THEN One32 ELSE Zero32

BinaryOperator_result(operator, input0, input1) ==
    CASE operator = "Add" -> AddResult(input0, input1)
      [] operator = "Mul" -> MulResult(input0, input1)
      [] operator = "Shl" -> ShlResult(input0, input1)
      [] operator = "Sub" -> SubResult(input0, input1)
      [] operator = "Div" -> DivResult(input0, input1)
      [] operator = "Shr" -> ShrResult(input0, input1)
      [] operator = "Mod" -> ModResult(input0, input1)
      [] operator = "Lt" -> LtResult(input0, input1)
      [] operator = "Gt" -> GtResult(input0, input1)

\* The plain `+`, `*`, `-` of the ternary operators: they wrap in a build
\* without overflow checks and panic on overflow in a build with them.
\* `%` panics on a zero divisor in every build.
TernaryIntermediate(operator, input0, input1) ==
    CASE operator = "AddMod" -> overflowing_add(input0, input1)
      [] operator = "MulMod" ->
            <<WrappingMul(input0, input1), MulOverflows(input0, input1)>>
      [] operator = "SubMod" -> overflowing_sub(input0, input1)

\* [panicked, value]: value is meaningful only when the call returns
TernaryOperator_result(operator, input0, input1, input2) ==
    LET t == TernaryIntermediate(operator, input0, input1)
    IN  IF overflow_checks /\ t[2]
        THEN [panicked |-> TRUE, value |-> Zero32]
        ELSE IF is_zero(input2)
        THEN [panicked |-> TRUE, value |-> Zero32]
        ELSE [panicked |-> FALSE, value |-> Rem32(t[1], input2)]

-----------------------------------------------------------------------------
(* The column layout (arithmetic/columns.rs): the selector columns come    *)
(* first, one per operator and pairwise distinct, then the columns the     *)
(* gadgets own.                                                            *)

IS_ADD == 0
IS_MUL == 1
IS_SUB == 2
IS_DIV == 3
IS_MOD == 4
IS_LT == 5
IS_GT == 6
IS_SHL == 7
IS_SHR == 8
IS_ADDMOD == 9
IS_MULMOD == 10
IS_SUBMOD == 11
INPUT_REGISTER_0 == 12
INPUT_REGISTER_1 == 14
INPUT_REGISTER_2 == 16
OUTPUT_REGISTER == 18
NUM_ARITH_COLUMNS == 20

SelectorColumns ==
    {IS_ADD, IS_MUL, IS_SUB, IS_DIV, IS_MOD, IS_LT, IS_GT, IS_SHL, IS_SHR,
     IS_ADDMOD, IS_MULMOD, IS_SUBMOD}

Columns == 0..(NUM_ARITH_COLUMNS - 1)

\* the field's identities
F_ZERO == 0
F_ONE == 1

BinaryOperator_row_filter(operator) ==
    CASE operator = "Add" -> IS_ADD
      [] operator = "Mul" -> IS_MUL
      [] operator = "Sub" -> IS_SUB
      [] operator = "Div" -> IS_DIV
      [] operator = "Mod" -> IS_MOD
      [] operator = "Lt" -> IS_LT
      [] operator = "Gt" -> IS_GT
      [] operator = "Shl" -> IS_SHL
      [] operator = "Shr" -> IS_SHR

TernaryOperator_row_filter(operator) ==
    CASE operator = "AddMod" -> IS_ADDMOD
      [] operator = "MulMod" -> IS_MULMOD
      [] operator = "SubMod" -> IS_SUBMOD

-----------------------------------------------------------------------------
(* The gadgets (arithmetic/addcy.rs, mul.rs, shift.rs, divmod.rs,          *)
(* modular.rs): each writes the limbs of its operands into the columns it  *)
(* owns and no selector column.  A call is recorded with what it was       *)
(* handed.                                                                 *)

NoValue == [none |-> TRUE]

\* vec![F::ZERO; columns::NUM_ARITH_COLUMNS]
ZeroRow == [c \in Columns |-> F_ZERO]

\* the two 16-bit limbs of a u32 written at a register's columns
WriteLimbs(row, register, u) ==
    [row EXCEPT ![register] = u.lo, ![register + 1] = u.hi]

GadgetCall(name, flag, inputs, result, nbuffers) ==
    [gadget |-> name, flag |-> flag, inputs |-> inputs, result |-> result,
     buffers |-> nbuffers]

addcy_generate(row, filter, left_in, right_in) ==
    WriteLimbs(WriteLimbs(row, INPUT_REGISTER_0, left_in),
               INPUT_REGISTER_1, right_in)

mul_generate(row, left_in, right_in) ==
    WriteLimbs(WriteLimbs(row, INPUT_REGISTER_0, left_in),
               INPUT_REGISTER_1, right_in)

divmod_generate(row, nv, filter, input0, input1, result) ==
    [row |-> WriteLimbs(WriteLimbs(row, INPUT_REGISTER_0, input0),
                        INPUT_REGISTER_1, input1),
     nv |-> WriteLimbs(nv, OUTPUT_REGISTER, result)]

shift_generate(row, nv, is_shl, shift, input, result) ==
    [row |-> WriteLimbs(WriteLimbs(row, INPUT_REGISTER_0, shift),
                        INPUT_REGISTER_1, input),
     nv |-> WriteLimbs(nv, OUTPUT_REGISTER, result)]

modular_generate(row, nv, filter, input0, input1, modulus) ==
    [row |-> WriteLimbs(WriteLimbs(row, INPUT_REGISTER_0, input0),
                        INPUT_REGISTER_1, input1),
     nv |-> WriteLimbs(nv, INPUT_REGISTER_2, modulus)]

-----------------------------------------------------------------------------
(* Operation and the row dispatcher. *)

NoOperation == [kind |-> "None"]
NoRows == [row |-> <<>>, next |-> <<>>, some |-> FALSE, calls |-> <<>>]

\* mutant: the result is computed with the operands exchanged
Operation_binary_Swapped(operator, input0, input1) ==
    [kind |-> "BinaryOperation", operator |-> operator,
     input0 |-> input0, input1 |-> input1, input2 |-> NoValue,
     result |-> BinaryOperator_result(operator, input1, input0)]

Operation_binary(operator, input0, input1) ==
    [kind |-> "BinaryOperation", operator |-> operator,
     input0 |-> input0, input1 |-> input1, input2 |-> NoValue,
     result |-> BinaryOperator_result(operator, input0, input1)]

\* reached only when TernaryOperator::result returns
Operation_ternary(operator, input0, input1, input2) ==
    [kind |-> "TernaryOperation", operator |-> operator,
     input0 |-> input0, input1 |-> input1, input2 |-> input2,
     result |-> TernaryOperator_result(operator, input0, input1, input2).value]

Operation_result(self) == self.result

\* (row, None): the second element is absent
OneRow(row, calls) ==
    [row |-> row, next |-> <<>>, some |-> FALSE, calls |-> calls]

\* (row, Some(nv))
TwoRows(row, nv, calls) ==
    [row |-> row, next |-> nv, some |-> TRUE, calls |-> calls]

\* mutant: the selector is set in the second row
ternary_op_to_rows_SelectorInRow2(row_filter, input0, input1, input2, result) ==
    LET row1 == ZeroRow
        row2 == [ZeroRow EXCEPT ![row_filter] = F_ONE]
        g == modular_generate(row1, row2, row_filter, input0, input1, input2)
    IN  TwoRows(g.row, g.nv,
                <<GadgetCall("modular", row_filter, <<input0, input1, input2>>,
                             NoValue, 2)>>)

ternary_op_to_rows(row_filter, input0, input1, input2, result) ==
    LET row1 == [ZeroRow EXCEPT ![row_filter] = F_ONE]
        row2 == ZeroRow
        g == modular_generate(row1, row2, row_filter, input0, input1, input2)
    IN  TwoRows(g.row, g.nv,
                <<GadgetCall("modular", row_filter, <<input0, input1, input2>>,
                             NoValue, 2)>>)

\* mutant: the Shl arm returns the second buffer, as the Shr arm does
ShlArm_ReturnsNv(row, nv, input0, input1, result) ==
    LET g == shift_generate(row, nv, TRUE, input0, input1, result)
    IN  TwoRows(g.row, g.nv,
                <<GadgetCall("shift", TRUE, <<input0, input1>>, result, 2)>>)

\* the Shl arm of binary_op_to_rows: nv is handed to the gadget and dropped
ShlArm(row, nv, input0, input1, result) ==
    OneRow(shift_generate(row, nv, TRUE, input0, input1, result).row,
           <<GadgetCall("shift", TRUE, <<input0, input1>>, result, 2)>>)

binary_op_to_rows(operator, input0, input1, result) ==
    LET row == [ZeroRow EXCEPT ![BinaryOperator_row_filter(operator)] = F_ONE]
        nv == ZeroRow
    IN  CASE operator \in {"Add", "Sub", "Lt", "Gt"} ->
               OneRow(addcy_generate(row, BinaryOperator_row_filter(operator),
                                     input0, input1),
                      <<GadgetCall("addcy", BinaryOperator_row_filter(operator),
                                   <<input0, input1>>, NoValue, 1)>>)
          [] operator = "Mul" ->
               OneRow(mul_generate(row, input0, input1),
                      <<GadgetCall("mul", NoValue, <<input0, input1>>,
                                   NoValue, 1)>>)
          [] operator = "Shl" -> ShlArm(row, nv, input0, input1, result)
          [] operator \in {"Div", "Mod"} ->
               LET g == divmod_generate(row, nv,
                                        BinaryOperator_row_filter(operator),
                                        input0, input1, result)
               IN  TwoRows(g.row, g.nv,
                           <<GadgetCall("divmod",
                                        BinaryOperator_row_filter(operator),
                                        <<input0, input1>>, result, 2)>>)
          [] operator = "Shr" ->
               LET g == shift_generate(row, nv, FALSE, input0, input1, result)
               IN  TwoRows(g.row, g.nv,
                           <<GadgetCall("shift", FALSE, <<input0, input1>>,
                                        result, 2)>>)

to_rows(self) ==
    IF self.kind = "BinaryOperation"
    THEN binary_op_to_rows(self.operator, self.input0, self.input1, self.result)
    ELSE ternary_op_to_rows(TernaryOperator_row_filter(self.operator),
                            self.input0, self.input1, self.input2, self.result)

-----------------------------------------------------------------------------
(* The inputs the constructors are called with. *)

SmallValues == {FromSmall(n) : n \in 0..MaxSmall}

\* 1 << shift for every shift below 32
PowersOfTwo == {Pow2U(k) : k \in 0..(U32_BITS - 1)}

\* the values just below 2^32
TopValues == {U(Half - 1, Half - 1 - k) : k \in 0..MaxTop}

\* values around the 16-bit and 31-bit boundaries, and two with no pattern
\* (0x12345678 and 0xDEADBEEF)
MidValues ==
    {U(0, Half - 1), U(1, 1), U(2^15 - 1, Half - 1), U(2^15, 1),
     U(4660, 22136), U(57005, 48879)}

BinaryInputs == SmallValues \cup PowersOfTwo \cup TopValues \cup MidValues

TernaryInputs ==
    {FromSmall(n) : n \in 0..MaxTernarySmall}
        \cup {FromSmall(7), FromSmall(10), FromSmall(20)}
        \cup {U(1, 0), U(2^15, 0), U(57005, 48879)} \cup TopValues

-----------------------------------------------------------------------------
(* The state machine: one Operation is constructed, then read or converted. *)

NoCall == [fn |-> "none"]

Init ==
    /\ overflow_checks \in BOOLEAN
    /\ pc = "idle"
    /\ call = NoCall
    /\ op = NoOperation
    /\ ret = NoValue
    /\ rows = NoRows

\* Operation::binary(operator, input0, input1), for any operator and operands
Binary ==
    /\ pc = "idle"
    /\ \E operator \in BinaryOperator, input0, input1 \in BinaryInputs :
          /\ call' = [fn |-> "binary", operator |-> operator,
                      input0 |-> input0, input1 |-> input1, input2 |-> NoValue]
          /\ op' = Operation_binary(operator, input0, input1)
    /\ pc' = "constructed"
    /\ UNCHANGED <<overflow_checks, ret, rows>>

\* Operation::ternary(operator, input0, input1, input2): it returns, or the
\* arithmetic of TernaryOperator::result panics and no Operation exists
Ternary ==
    /\ pc = "idle"
    /\ \E operator \in TernaryOperator, input0, input1, input2 \in TernaryInputs :
          /\ call' = [fn |-> "ternary", operator |-> operator,
                      input0 |-> input0, input1 |-> input1, input2 |-> input2]
          /\ IF TernaryOperator_result(operator, input0, input1, input2).panicked
             THEN /\ pc' = "panicked"
                  /\ op' = NoOperation
             ELSE /\ pc' = "constructed"
                  /\ op' = Operation_ternary(operator, input0, input1, input2)
    /\ UNCHANGED <<overflow_checks, ret, rows>>

\* Operation::result()
Result ==
    /\ pc = "constructed"
    /\ ret' = Operation_result(op)
    /\ pc' = "read"
    /\ UNCHANGED <<overflow_checks, call, op, rows>>

\* Operation::to_rows()
ToRows ==
    /\ pc = "constructed"
    /\ rows' = to_rows(op)
    /\ pc' = "converted"
    /\ UNCHANGED <<overflow_checks, call, op, ret>>

Next ==
    \/ Binary
    \/ Ternary
    \/ Result
    \/ ToRows

Spec == Init /\ [][Next]_vars

-----------------------------------------------------------------------------
(* Mathematical naturals below 2^64, for stating the claims: eight        *)
(* base-256 digits, least significant first.  Sums and products of u32     *)
(* values are exact here.                                                  *)

Digits == 1..8

NatOf(u) ==
    <<u.lo % 2^8, u.lo \div 2^8, u.hi % 2^8, u.hi \div 2^8, 0, 0, 0, 0>>

NOne == <<1, 0, 0, 0, 0, 0, 0, 0>>

RECURSIVE Carry(_, _, _)
\* the digits of the number whose column sums are cols, from column i on
Carry(cols, i, c) ==
    IF i > 8 THEN <<>>
    ELSE LET t == cols[i] + c
         IN  <<t % 2^8>> \o Carry(cols, i + 1, t \div 2^8)

RECURSIVE ColSum(_, _, _, _)
\* the sum of x[i] * y[k + 1 - i] over i..k
ColSum(x, y, k, i) ==
    IF i > k THEN 0 ELSE x[i] * y[k + 1 - i] + ColSum(x, y, k, i + 1)

NAdd(x, y) == Carry([i \in Digits |-> x[i] + y[i]], 1, 0)

NMul(x, y) == Carry([k \in Digits |-> ColSum(x, y, k, 1)], 1, 0)

\* x mod 2^32
NLow32(x) == <<x[1], x[2], x[3], x[4], 0, 0, 0, 0>>

\* 2^32 - 1 - x, for x below 2^32
NCompl32(x) == <<255 - x[1], 255 - x[2], 255 - x[3], 255 - x[4], 0, 0, 0, 0>>

\* (x - y) mod 2^32, for x and y below 2^32
NSubMod32(x, y) == NLow32(NAdd(NAdd(x, NCompl32(y)), NOne))

NLt(x, y) ==
    \E i \in Digits : x[i] < y[i] /\ \A j \in (i + 1)..8 : x[j] = y[j]

NLe(x, y) == x = y \/ NLt(x, y)

\* 2^k, for k in 0..63
NPow2(k) == [i \in Digits |-> IF i = (k \div 8) + 1 THEN 2^(k % 8) ELSE 0]

\* the u32 whose value is x, for x below 2^32
U32Of(x) == U(x[3] + x[4] * 2^8, x[1] + x[2] * 2^8)

\* r = x mod m, for m # 0: r < m and x = m * q + r for the quotient q
IsRemainder(r, x, m) ==
    /\ NLt(r, m)
    /\ x = NAdd(NMul(m, NatOf(Div32(U32Of(x), U32Of(m)))), r)

\* q = floor(x / m), for m # 0: m * q <= x < m * q + m
IsQuotientBy(q, x, m) ==
    /\ NLe(NMul(m, q), x)
    /\ NLt(x, NAdd(NMul(m, q), m))

-----------------------------------------------------------------------------
(* The claims. *)

Built == pc \in {"constructed", "read", "converted"}

BuiltBinary(operators) ==
    Built /\ call.fn = "binary" /\ call.operator \in operators

TwoRowOperators == {"Div", "Mod", "Shr", "AddMod", "MulMod", "SubMod"}

row_filter(self) ==
    IF self.kind = "BinaryOperation"
    THEN BinaryOperator_row_filter(self.operator)
    ELSE TernaryOperator_row_filter(self.operator)

\* C1: the Operation built by Operation::binary or Operation::ternary stores
\* the value operator.result gives for the operands of the call,
\* Operation::result() returns the stored value, and to_rows hands that same
\* stored value to the gadget for Shl, Shr, Div and Mod.
C1_ResultStored ==
    /\ Built /\ call.fn = "binary" =>
          /\ op.operator = call.operator
          /\ op.input0 = call.input0 /\ op.input1 = call.input1
          /\ op.result =
                BinaryOperator_result(call.operator, call.input0, call.input1)
    /\ Built /\ call.fn = "ternary" =>
          /\ op.operator = call.operator
          /\ op.input0 = call.input0 /\ op.input1 = call.input1
          /\ op.input2 = call.input2
          /\ op.result =
                TernaryOperator_result(call.operator, call.input0,
                                       call.input1, call.input2).value
    /\ pc = "read" => ret = op.result
    /\ pc = "converted" /\ op.operator \in {"Shl", "Shr", "Div", "Mod"} =>
          /\ Len(rows.calls) = 1
          /\ rows.calls[1].inputs = <<call.input0, call.input1>>
          /\ rows.calls[1].result = op.result
          /\ rows.calls[1].result =
                BinaryOperator_result(call.operator, call.input0, call.input1)

\* C1 witness: a Div by zero was converted and the divmod gadget was handed
\* the stored zero.
C1_Witness ==
    /\ pc = "converted" /\ op.operator = "Div"
    /\ op.input0 = Max32 /\ is_zero(op.input1)
    /\ rows.calls[1].gadget = "divmod" /\ rows.calls[1].result = Zero32

\* C2: constructing an Operation never fails, for every operator and all
\* operands, a zero input2 and overflowing intermediates included: no call
\* ends in a panic.
C2_ConstructionNeverFails == pc # "panicked"

\* C3: Div.result(a, b) is 0 when b = 0 and the truncated quotient otherwise;
\* Mod.result(a, b) is 0 when b = 0 and the remainder otherwise; whenever
\* b # 0, a = b * Div.result(a, b) + Mod.result(a, b) with Mod.result(a, b) < b.
C3_DivMod ==
    BuiltBinary({"Div", "Mod"}) =>
        LET a == call.input0
            b == call.input1
            q == IF call.operator = "Div" THEN op.result
                 ELSE BinaryOperator_result("Div", a, b)
            m == IF call.operator = "Mod" THEN op.result
                 ELSE BinaryOperator_result("Mod", a, b)
        IN  IF is_zero(b) THEN op.result = Zero32
            ELSE /\ NatOf(a) = NAdd(NMul(NatOf(b), NatOf(q)), NatOf(m))
                 /\ NLt(NatOf(m), NatOf(b))
                 /\ call.operator = "Div" =>
                        IsQuotientBy(NatOf(op.result), NatOf(a), NatOf(b))

\* C3 witness: 2^32 - 1 was reduced modulo 7, leaving 3.
C3_Witness ==
    /\ BuiltBinary({"Mod"})
    /\ call.input0 = Max32 /\ call.input1 = U(0, 7) /\ op.result = U(0, 3)

\* C4: Add.result(a, b) = (a + b) mod 2^32, Mul.result(a, b) = (a * b) mod 2^32
\* and Sub.result(a, b) = (a - b) mod 2^32: wrapped, never an error, never
\* saturated.
C4_WrappingArithmetic ==
    BuiltBinary({"Add", "Mul", "Sub"}) =>
        LET a == NatOf(call.input0)
            b == NatOf(call.input1)
        IN  NatOf(op.result) =
                CASE call.operator = "Add" -> NLow32(NAdd(a, b))
                  [] call.operator = "Mul" -> NLow32(NMul(a, b))
                  [] call.operator = "Sub" -> NSubMod32(a, b)

\* C4 witness: (2^32 - 1) + 1 wrapped to 0.
C4_Witness ==
    /\ BuiltBinary({"Add"})
    /\ call.input0 = Max32 /\ call.input1 = One32 /\ op.result = Zero32

\* C5: with a the shift amount and b the shifted value, Shl.result(a, b) and
\* Shr.result(a, b) are 0 when a >= 32; when a < 32, Shl.result(a, b) is
\* (b * 2^a) mod 2^32 and Shr.result(a, b) is floor(b / 2^a).
C5_Shifts ==
    BuiltBinary({"Shl", "Shr"}) =>
        LET a == call.input0
            b == NatOf(call.input1)
        IN  IF ~NLt(NatOf(a), NatOf(FromSmall(U32_BITS)))
            THEN op.result = Zero32
            ELSE IF call.operator = "Shl"
            THEN NatOf(op.result) = NLow32(NMul(b, NPow2(a.lo)))
            ELSE IsQuotientBy(NatOf(op.result), b, NPow2(a.lo))

\* C5 witness: 2^32 - 1 was shifted left by 31, leaving 2^31.
C5_Witness ==
    /\ BuiltBinary({"Shl"})
    /\ call.input0 = FromSmall(31) /\ call.input1 = Max32
    /\ op.result = U(2^15, 0)

\* C6: for every c # 0 the ternary operators reduce the wrapped intermediate:
\* AddMod.result(a, b, c) = ((a + b) mod 2^32) mod c, MulMod.result(a, b, c) =
\* ((a * b) mod 2^32) mod c, SubMod.result(a, b, c) = ((a - b) mod 2^32) mod c.
C6_TernaryWrapsThenReduces ==
    call.fn = "ternary" /\ ~is_zero(call.input2) /\ pc # "idle" =>
        LET a == NatOf(call.input0)
            b == NatOf(call.input1)
            wrapped == CASE call.operator = "AddMod" -> NLow32(NAdd(a, b))
                         [] call.operator = "MulMod" -> NLow32(NMul(a, b))
                         [] call.operator = "SubMod" -> NSubMod32(a, b)
        IN  /\ Built
            /\ IsRemainder(NatOf(op.result), wrapped, NatOf(call.input2))

\* C7: Lt.result(a, b) and Gt.result(a, b) are each 0 or 1; Lt is 1 iff a < b,
\* Gt is 1 iff a > b, so exactly one of them is 1 when a # b and both are 0
\* when a = b.
C7_Comparisons ==
    BuiltBinary({"Lt", "Gt"}) =>
        LET a == call.input0
            b == call.input1
            lt == IF call.operator = "Lt" THEN op.result
                  ELSE BinaryOperator_result("Lt", a, b)
            gt == IF call.operator = "Gt" THEN op.result
                  ELSE BinaryOperator_result("Gt", a, b)
        IN  /\ lt \in {Zero32, One32} /\ gt \in {Zero32, One32}
            /\ lt = One32 <=> NLt(NatOf(a), NatOf(b))
            /\ gt = One32 <=> NLt(NatOf(b), NatOf(a))
            /\ a # b => (lt = One32) # (gt = One32)
            /\ a = b => lt = Zero32 /\ gt = Zero32

\* C7 witness: 2^16 - 1 was compared with 2^16, and Lt gave 1.
C7_Witness ==
    /\ BuiltBinary({"Lt"})
    /\ call.input0 = U(0, Half - 1) /\ call.input1 = U(1, 0)
    /\ op.result = One32

\* C8: to_rows invokes exactly one gadget and returns a second row exactly for
\* Div, Mod, Shr, AddMod, MulMod and SubMod; for Shl the second buffer handed
\* to the shift gadget is dropped; the first row returned is the buffer the
\* selector was set in.
C8_RowCount ==
    pc = "converted" =>
        /\ Len(rows.calls) = 1
        /\ rows.some <=> op.operator \in TwoRowOperators
        /\ rows.some => DOMAIN rows.next = Columns
        /\ ~rows.some => rows.next = <<>>
        /\ op.operator = "Shl" => rows.calls[1].buffers = 2
        /\ DOMAIN rows.row = Columns
        /\ rows.row[row_filter(op)] = F_ONE

\* C8 witness: a Shl was converted: the shift gadget got two buffers and one
\* row came back.
C8_Witness ==
    /\ pc = "converted" /\ op.operator = "Shl"
    /\ rows.calls[1].gadget = "shift" /\ rows.calls[1].buffers = 2
    /\ ~rows.some

\* C9: in the first row to_rows returns, the operator's own selector column
\* (its row_filter()) holds the field one and each of the other eleven selector
\* columns holds the field zero; the twelve selector indices are distinct.
C9_OneSelector ==
    /\ Cardinality(SelectorColumns) = 12
    /\ pc = "converted" =>
          /\ row_filter(op) \in SelectorColumns
          /\ \A c \in SelectorColumns :
                rows.row[c] = IF c = row_filter(op) THEN F_ONE ELSE F_ZERO

\* C9 witness: a SubMod was converted and IS_SUBMOD holds one.
C9_Witness ==
    /\ pc = "converted" /\ op.operator = "SubMod"
    /\ rows.row[IS_SUBMOD] = F_ONE /\ rows.row[IS_ADD] = F_ZERO

\* C10: the Operation built as Operation::binary(Shl, value, 1 << shift), the
\* documented way to create SHL(shift, value) for shift < 32, has result
\* (value << shift) mod 2^32, and the one built as
\* Operation::binary(Shr, value, 1 << shift) has result value >> shift.
C10_DocumentedShifts ==
    BuiltBinary({"Shl", "Shr"}) /\ call.input1 \in PowersOfTwo =>
        LET value == NatOf(call.input0)
            power == NatOf(call.input1)
        IN  IF call.operator = "Shl"
            THEN NatOf(op.result) = NLow32(NMul(value, power))
            ELSE IsQuotientBy(NatOf(op.result), value, power)

====
